---- MODULE Spec2Model ----
(***************************************************************************)
(* gitsum: a terminal front end to `git diff`.  The module models the      *)
(* GitDiffChecker class and the commander handlers of the CLI.  Texts are  *)
(* TLA+ strings, handled character by character as the TypeScript code     *)
(* handles them (split, trim, substring, startsWith, the header regex).    *)
(***************************************************************************)
EXTENDS Integers, Sequences, FiniteSets, TLC

VARIABLES
    diff,        \* filterIgnoredFilesFromDiff: the raw diff text (its argument)
    ignored,     \* the paths `git check-ignore` exits 0 for, in this repository
    filtered,    \* filterIgnoredFilesFromDiff: the returned text
    formatted,   \* formatDiffOutput: the returned text
    fpc,         \* "input" before the call, "done" after it
    rawOptions,  \* diff command: the options object commander hands to the action
    options,     \* checkDiff: its GitDiffOptions argument
    diffCommand, \* checkDiff: the local diffCommand when the query is issued
    description, \* checkDiff: the local description
    spc,         \* "input" before the action runs, "done" once the command is built
    statusText,  \* the text `git status --porcelain` returns
    entries,     \* checkDiff: the locals status and filename of each forEach round
    printed,     \* checkDiff: the per-file lines of the status summary, in order
    counts,      \* checkDiff: the six counters of the summary
    tpc,         \* "input" before the summary is computed, "done" after it
    handler,     \* the command being run: "diff" (checkDiff), "info" (showRepositoryInfo)
    pc,          \* the handler's position: "start", the query it is about to issue, "done"
    dotGit,      \* whether <cwd>/.git exists
    insideRepo,  \* whether cwd is inside the work tree of a repository
    executed,    \* the commands handed to executeGitCommand, in order
    failures,    \* what execSync threw in executeGitCommand: command, stderr, stdout
    output,      \* what the spinner and console.log have written, in order
    info         \* showRepositoryInfo: the locals branch, remote, lastCommit

envVars == <<ignored>>

runVars == <<handler, pc, dotGit, insideRepo, executed, failures, output, info>>

filterVars == <<diff, filtered, formatted, fpc>>

statusVars == <<statusText, entries, printed, counts, tpc>>

synthVars == <<rawOptions, options, diffCommand, description, spc>>

(***************************************************************************)
(* The values of the variables a specification does not use                 *)
(***************************************************************************)
\* an optional value: <<>> is undefined, <<v>> is the value v
Undefined == <<>>

NoOptions ==
    [staged |-> FALSE, unstaged |-> FALSE, all |-> FALSE, branch |-> Undefined,
     commit |-> Undefined, file |-> Undefined, color |-> TRUE, wordDiff |-> FALSE,
     context |-> Undefined]

NoInfo == [branch |-> "", remote |-> "", lastCommit |-> ""]

RunIdle ==
    /\ handler = "none"
    /\ pc = "idle"
    /\ dotGit = FALSE
    /\ insideRepo = FALSE
    /\ executed = <<>>
    /\ failures = <<>>
    /\ output = <<>>
    /\ info = NoInfo

FilterIdle ==
    /\ diff = ""
    /\ filtered = ""
    /\ formatted = ""
    /\ fpc = "idle"

SynthIdle ==
    /\ rawOptions = NoOptions
    /\ options = NoOptions
    /\ diffCommand = ""
    /\ description = ""
    /\ spc = "idle"

NoCounts ==
    [modified |-> 0, added |-> 0, deleted |-> 0, renamed |-> 0, unmerged |-> 0,
     untracked |-> 0]

StatusIdle ==
    /\ statusText = ""
    /\ entries = <<>>
    /\ printed = <<>>
    /\ counts = NoCounts
    /\ tpc = "idle"

(***************************************************************************)
(* String primitives of the JavaScript runtime                             *)
(***************************************************************************)
\* the characters at positions i..j (1-based, inclusive), clamped to the string
Slice(s, i, j) ==
    LET a == IF i < 1 THEN 1 ELSE i
        b == IF j > Len(s) THEN Len(s) ELSE j
    IN  IF a > b THEN "" ELSE SubSeq(s, a, b)

CharAt(s, i) == Slice(s, i, i)

\* s.substring(from): from is 0-based
SubstringFrom(s, from) == Slice(s, from + 1, Len(s))

\* s.substring(from, to): 0-based, to exclusive
Substring(s, from, to) == Slice(s, from + 1, to)

StartsWith(s, p) == Len(s) >= Len(p) /\ Slice(s, 1, Len(p)) = p

Includes(s, c) == \E i \in 1..Len(s) : CharAt(s, i) = c

\* the characters String.prototype.trim and the regex class \s strip or match
IsSpace(c) == c \in {" ", "\t", "\n", "\r", "\f"}

RECURSIVE Split(_)
\* s.split("\n")
Split(s) ==
    IF Includes(s, "\n")
    THEN LET i == CHOOSE k \in 1..Len(s) :
                      /\ CharAt(s, k) = "\n"
                      /\ \A j \in 1..(k - 1) : CharAt(s, j) # "\n"
         IN  <<Slice(s, 1, i - 1)>> \o Split(Slice(s, i + 1, Len(s)))
    ELSE <<s>>

RECURSIVE Join(_)
\* lines.join("\n")
Join(lines) ==
    IF Len(lines) = 0 THEN ""
    ELSE IF Len(lines) = 1 THEN lines[1]
    ELSE lines[1] \o "\n" \o Join(Tail(lines))

\* s.trim()
Trim(s) ==
    IF \A i \in 1..Len(s) : IsSpace(CharAt(s, i)) THEN ""
    ELSE LET first == CHOOSE i \in 1..Len(s) :
                          /\ ~IsSpace(CharAt(s, i))
                          /\ \A j \in 1..(i - 1) : IsSpace(CharAt(s, j))
             last  == CHOOSE i \in 1..Len(s) :
                          /\ ~IsSpace(CharAt(s, i))
                          /\ \A j \in (i + 1)..Len(s) : IsSpace(CharAt(s, j))
         IN  Slice(s, first, last)

(***************************************************************************)
(* filterIgnoredFilesFromDiff                                              *)
(***************************************************************************)
Marker == "diff --git"

\* the literal head of the header regex
HeaderLiteral == "diff --git a/"

\* the end of the run of \s characters that starts at position j
WsEnd(line, j) ==
    CHOOSE w \in j..Len(line) :
        /\ \A k \in j..w : IsSpace(CharAt(line, k))
        /\ (w = Len(line) \/ ~IsSpace(CharAt(line, w + 1)))

\* line.match(/diff --git a\/(.+?)\s+b\/(.+?)$/): the leftmost occurrence of the
\* literal, the shortest first group that a run of blanks and "b/" follow, and
\* a second group that runs to the end of the line (no m flag: $ is the end)
MatchHeader(line) ==
    LET n == Len(line)
        h == Len(HeaderLiteral)
        Ends(s) == { e \in (s + h)..(n - 3) :
                       /\ IsSpace(CharAt(line, e + 1))
                       /\ LET w == WsEnd(line, e + 1)
                          IN  w + 3 <= n /\ Slice(line, w + 1, w + 2) = "b/" }
        Starts == { s \in 1..n : Slice(line, s, s + h - 1) = HeaderLiteral
                                 /\ Ends(s) # {} }
    IN  IF n < h \/ Starts = {}
        THEN [matched |-> FALSE, oldPath |-> "", newPath |-> ""]
        ELSE LET s == CHOOSE x \in Starts : \A y \in Starts : x <= y
                 e == CHOOSE x \in Ends(s) : \A y \in Ends(s) : x <= y
                 w == WsEnd(line, e + 1)
             IN  [matched |-> TRUE,
                  oldPath |-> Slice(line, s + h, e),
                  newPath |-> Slice(line, w + 3, n)]

\* execSync(`git check-ignore "${filepath}"`) returns iff the path is ignored
isPathIgnored(filepath, ign) == filepath \in ign

\* the inner while loop: the index of the next header line at or after j, or
\* one past the end
NextMarker(lines, j) ==
    IF \E k \in j..Len(lines) : StartsWith(lines[k], Marker)
    THEN CHOOSE k \in j..Len(lines) :
             /\ StartsWith(lines[k], Marker)
             /\ \A m \in j..(k - 1) : ~StartsWith(lines[m], Marker)
    ELSE Len(lines) + 1

RECURSIVE FilterLoop(_, _, _, _, _)
\* the for loop from index i on (1-based), with the locals filtered and
\* skipCurrentFile
FilterLoop(lines, i, out, skipCurrentFile, ign) ==
    IF i > Len(lines) THEN out
    ELSE
      LET line == lines[i]
          m == MatchHeader(line)
      IN  IF StartsWith(line, Marker) /\ m.matched
          THEN LET filePath == IF m.newPath # "/dev/null" THEN m.newPath
                                                         ELSE m.oldPath
               IN  IF isPathIgnored(filePath, ign)
                   THEN FilterLoop(lines, NextMarker(lines, i + 1), out, TRUE, ign)
                   ELSE FilterLoop(lines, i + 1, Append(out, line), FALSE, ign)
          ELSE IF skipCurrentFile
               THEN FilterLoop(lines, i + 1, out, skipCurrentFile, ign)
               ELSE FilterLoop(lines, i + 1, Append(out, line), skipCurrentFile, ign)

filterIgnoredFilesFromDiff(text, ign) ==
    Join(FilterLoop(Split(text), 1, <<>>, FALSE, ign))


(***************************************************************************)
(* The diff command's action: parseInt, and checkDiff's command synthesis  *)
(***************************************************************************)
\* JavaScript truthiness of an optional string: defined and not empty
Truthy(opt) == opt # Undefined /\ opt[1] # ""

DecDigits == "0123456789"

HexLower == "0123456789abcdef"

HexUpper == "0123456789ABCDEF"

\* the value of the digit c in the radix, or -1
DigitValue(c, radix) ==
    LET Pos(alphabet) == { k \in 1..radix : CharAt(alphabet, k) = c }
        hits == Pos(HexLower) \cup Pos(HexUpper)
    IN  IF Len(c) # 1 \/ hits = {} THEN -1 ELSE (CHOOSE k \in hits : TRUE) - 1

RECURSIVE DigitsValue(_, _, _, _)
\* the number the longest run of digits from position i on denotes, acc so far
DigitsValue(s, i, radix, acc) ==
    IF i > Len(s) \/ DigitValue(CharAt(s, i), radix) < 0 THEN acc
    ELSE DigitsValue(s, i + 1, radix, acc * radix + DigitValue(CharAt(s, i), radix))

\* parseInt(s), no radix given: blanks are skipped, then a sign, then 0x or 0X
\* selects radix 16, then the longest run of digits; no digit at all is NaN
parseInt(s) ==
    LET lead == IF \A k \in 1..Len(s) : IsSpace(CharAt(s, k)) THEN Len(s)
                ELSE (CHOOSE k \in 1..Len(s) :
                          /\ ~IsSpace(CharAt(s, k))
                          /\ \A j \in 1..(k - 1) : IsSpace(CharAt(s, j))) - 1
        t    == SubstringFrom(s, lead)
        neg  == CharAt(t, 1) = "-"
        u    == IF CharAt(t, 1) \in {"-", "+"} THEN SubstringFrom(t, 1) ELSE t
        hex  == Slice(u, 1, 2) \in {"0x", "0X"}
        v    == IF hex THEN SubstringFrom(u, 2) ELSE u
        r    == IF hex THEN 16 ELSE 10
    IN  IF DigitValue(CharAt(v, 1), r) < 0 THEN [nan |-> TRUE, value |-> 0]
        ELSE [nan |-> FALSE,
              value |-> IF neg THEN 0 - DigitsValue(v, 1, r, 0)
                               ELSE DigitsValue(v, 1, r, 0)]

RECURSIVE NatToString(_)
NatToString(n) ==
    IF n < 10 THEN CharAt(DecDigits, n + 1)
    ELSE NatToString(n \div 10) \o CharAt(DecDigits, (n % 10) + 1)

\* `${n}` for an integer n
NumberToString(n) == IF n < 0 THEN "-" \o NatToString(0 - n) ELSE NatToString(n)

\* the action of the diff command: context is parsed, NaN falls back to 3, and
\* the rest of the options object is passed through
DiffActionOptions(raw) ==
    LET context == parseInt(raw.context)
    IN  [staged |-> raw.staged, unstaged |-> raw.unstaged, all |-> raw.all,
         branch |-> raw.branch, commit |-> raw.commit, file |-> raw.file,
         color |-> raw.color, wordDiff |-> raw.wordDiff,
         context |-> IF context.nan THEN <<3>> ELSE <<context.value>>]

\* the chain with the test of all moved in front of the test of staged
ModeBranch_AllFirst(o) ==
    IF o.all THEN
        [diffCommand |-> "git diff HEAD",
         description |-> "All changes (staged + unstaged)"]
    ELSE IF o.staged THEN
        [diffCommand |-> "git diff --cached", description |-> "Staged changes"]
    ELSE IF o.unstaged THEN
        [diffCommand |-> "git diff", description |-> "Unstaged changes"]
    ELSE IF Truthy(o.branch) THEN
        [diffCommand |-> "git diff " \o o.branch[1],
         description |-> "Changes compared to " \o o.branch[1]]
    ELSE IF Truthy(o.commit) THEN
        [diffCommand |-> "git diff " \o o.commit[1],
         description |-> "Changes compared to " \o o.commit[1]]
    ELSE
        [diffCommand |-> "git diff", description |-> "Working directory changes"]

\* checkDiff: the if / else-if chain that picks the command and the description
ModeBranch(o) ==
    IF o.staged THEN
        [diffCommand |-> "git diff --cached", description |-> "Staged changes"]
    ELSE IF o.unstaged THEN
        [diffCommand |-> "git diff", description |-> "Unstaged changes"]
    ELSE IF o.all THEN
        [diffCommand |-> "git diff HEAD",
         description |-> "All changes (staged + unstaged)"]
    ELSE IF Truthy(o.branch) THEN
        [diffCommand |-> "git diff " \o o.branch[1],
         description |-> "Changes compared to " \o o.branch[1]]
    ELSE IF Truthy(o.commit) THEN
        [diffCommand |-> "git diff " \o o.commit[1],
         description |-> "Changes compared to " \o o.commit[1]]
    ELSE
        [diffCommand |-> "git diff", description |-> "Working directory changes"]

\* checkDiff: the flags appended after the mode
ContextFlag(o) ==
    IF o.context # Undefined THEN " -U" \o NumberToString(o.context[1]) ELSE ""

WordDiffFlag(o) == IF o.wordDiff THEN " --word-diff=color" ELSE ""

SubmoduleFlag == " --ignore-submodules=all"

FileFilter(o) == IF Truthy(o.file) THEN " -- " \o o.file[1] ELSE ""

\* the path restriction appended before the submodule flag
BuildDiffCommand_PathFirst(o) ==
    ModeBranch(o).diffCommand \o ContextFlag(o) \o WordDiffFlag(o)
        \o FileFilter(o) \o SubmoduleFlag

BuildDiffCommand(o) ==
    ModeBranch(o).diffCommand \o ContextFlag(o) \o WordDiffFlag(o)
        \o SubmoduleFlag \o FileFilter(o)

BuildDescription(o) == ModeBranch(o).description

\* the strings a user may give as --context
ContextInputs == {"3", "0", "10", "abc", "-5", "7px", " 4", "", "0x1f", "+2", "1.5"}

RawOptionSets ==
    [staged : BOOLEAN, unstaged : BOOLEAN, all : BOOLEAN,
     branch : {Undefined, <<"">>, <<"main">>},
     commit : {Undefined, <<"">>, <<"abc123">>},
     file : {Undefined, <<"">>, <<"src/a.ts">>},
     color : {TRUE},
     wordDiff : BOOLEAN,
     context : ContextInputs]

InitSynth ==
    /\ rawOptions \in RawOptionSets
    /\ options = NoOptions
    /\ diffCommand = ""
    /\ description = ""
    /\ spc = "input"
    /\ ignored = {}
    /\ FilterIdle
    /\ StatusIdle
    /\ RunIdle

\* the action handler up to the point where checkDiff issues the diff query
DiffAction ==
    /\ spc = "input"
    /\ options' = DiffActionOptions(rawOptions)
    /\ diffCommand' = BuildDiffCommand(options')
    /\ description' = BuildDescription(options')
    /\ spc' = "done"
    /\ UNCHANGED <<rawOptions, envVars, filterVars, statusVars, runVars>>


(***************************************************************************)
(* getGitStatus and the status summary of checkDiff                         *)
(***************************************************************************)
\* getGitStatus: the status text is trimmed as a whole, split, the empty lines
\* dropped, and the lines whose substring(3) git check-ignore accepts dropped
getGitStatus(text, ign) ==
    LET lines == SelectSeq(Split(Trim(text)), LAMBDA line : Len(line) > 0)
    IN  SelectSeq(lines, LAMBDA line : ~isPathIgnored(SubstringFrom(line, 3), ign))

\* the else-if chain with the test of D moved in front of the test of M
Classify_DeletedFirst(status) ==
    IF Includes(status, "D") THEN "Deleted"
    ELSE IF Includes(status, "M") THEN "Modified"
    ELSE IF Includes(status, "A") THEN "Added"
    ELSE IF Includes(status, "R") THEN "Renamed"
    ELSE IF Includes(status, "U") THEN "Unmerged"
    ELSE IF status = "??" THEN "Untracked"
    ELSE ""

\* the else-if chain of the forEach callback: the label printed, "" for none
Classify(status) ==
    IF Includes(status, "M") THEN "Modified"
    ELSE IF Includes(status, "A") THEN "Added"
    ELSE IF Includes(status, "D") THEN "Deleted"
    ELSE IF Includes(status, "R") THEN "Renamed"
    ELSE IF Includes(status, "U") THEN "Unmerged"
    ELSE IF status = "??" THEN "Untracked"
    ELSE ""

\* the locals of each forEach round
SummaryEntries(status) ==
    [k \in 1..Len(status) |->
        [status |-> Substring(status[k], 0, 2), filename |-> SubstringFrom(status[k], 3)]]

\* the lines console.log prints, "  <label>: <filename>", as label and filename
SummaryPrinted(es) ==
    LET all == [k \in 1..Len(es) |->
                   [label |-> Classify(es[k].status), filename |-> es[k].filename]]
    IN  SelectSeq(all, LAMBDA e : e.label # "")

CountOf(es, label) ==
    Cardinality({ k \in 1..Len(es) : Classify(es[k].status) = label })

SummaryCounts(es) ==
    [modified  |-> CountOf(es, "Modified"),
     added     |-> CountOf(es, "Added"),
     deleted   |-> CountOf(es, "Deleted"),
     renamed   |-> CountOf(es, "Renamed"),
     unmerged  |-> CountOf(es, "Unmerged"),
     untracked |-> CountOf(es, "Untracked")]

MaxStatusLines == 2

\* lines of `git status --porcelain`: XY, a blank, the path
StatusLines == { " M src/a.ts", "M  b.ts", "?? newfile.txt", "MD c.ts", "AM d.ts",
                 " D f.ts", "R  old.ts -> new.ts", "UU g.ts" }

\* git ends every line of the status output with a newline
StatusTexts ==
    {""} \cup { Join(ls) \o "\n" :
                  ls \in UNION { [1..n -> StatusLines] : n \in 1..MaxStatusLines } }

InitStatus ==
    /\ statusText \in StatusTexts
    /\ ignored \in SUBSET {"newfile.txt", "b.ts"}
    /\ entries = <<>>
    /\ printed = <<>>
    /\ counts = NoCounts
    /\ tpc = "input"
    /\ FilterIdle
    /\ SynthIdle
    /\ RunIdle

\* checkDiff from the getGitStatus call to the end of the forEach
StatusSummary ==
    /\ tpc = "input"
    /\ entries' = SummaryEntries(getGitStatus(statusText, ignored))
    /\ printed' = SummaryPrinted(entries')
    /\ counts' = SummaryCounts(entries')
    /\ tpc' = "done"
    /\ UNCHANGED <<statusText, envVars, filterVars, synthVars, runVars>>


(***************************************************************************)
(* formatDiffOutput, executeGitCommand and the texts the handlers print     *)
(***************************************************************************)
\* chalk.<colour>(line): the line between the colour's escape sequences, the
\* escape character written ^[
Chalk(open, line) == "^[[" \o open \o "m" \o line \o "^[[39m"

\* the colouring with the change marker of an added or removed line dropped
ColorLine_MarkerDropped(line) ==
    IF StartsWith(line, "+") THEN Chalk("32", SubstringFrom(line, 1))
    ELSE IF StartsWith(line, "-") THEN Chalk("31", SubstringFrom(line, 1))
    ELSE IF StartsWith(line, "@@") THEN Chalk("34", line)
    ELSE IF StartsWith(line, Marker) THEN Chalk("33", line)
    ELSE IF StartsWith(line, "index") THEN Chalk("90", line)
    ELSE line

ColorLine(line) ==
    IF StartsWith(line, "+") THEN Chalk("32", line)
    ELSE IF StartsWith(line, "-") THEN Chalk("31", line)
    ELSE IF StartsWith(line, "@@") THEN Chalk("34", line)
    ELSE IF StartsWith(line, Marker) THEN Chalk("33", line)
    ELSE IF StartsWith(line, "index") THEN Chalk("90", line)
    ELSE line

formatDiffOutput(text, o, ign) ==
    LET filteredDiff == filterIgnoredFilesFromDiff(text, ign)
        lines == Split(filteredDiff)
    IN  IF ~o.color THEN filteredDiff
        ELSE Join([k \in 1..Len(lines) |-> ColorLine(lines[k])])

UpperCase == "ABCDEFGHIJKLMNOPQRSTUVWXYZ"

LowerCase == "abcdefghijklmnopqrstuvwxyz"

LowerChar(c) ==
    LET at == { k \in 1..Len(UpperCase) : CharAt(UpperCase, k) = c }
    IN  IF at = {} THEN c ELSE CharAt(LowerCase, CHOOSE k \in at : TRUE)

RECURSIVE toLowerCase(_)
toLowerCase(s) ==
    IF s = "" THEN "" ELSE LowerChar(CharAt(s, 1)) \o toLowerCase(SubstringFrom(s, 1))

\* the message with the stderr text left out
ErrorMessage_CommandOnly(command, stderr, stdout) == "Git command failed: " \o command

\* executeGitCommand, catch: the message of the Error it throws
ErrorMessage(command, stderr, stdout) ==
    "Git command failed: " \o command
        \o (IF stderr # "" \/ stdout # ""
            THEN "\n" \o (IF stderr # "" THEN stderr ELSE stdout)
            ELSE "")

isGitRepository == dotGit

SpinnerFail(text) == [via |-> "spinner.fail", text |-> text]

SpinnerSucceed(text) == [via |-> "spinner.succeed", text |-> text]

Log(text) == [via |-> "console.log", text |-> text]

\* checkDiff, catch block
CheckDiffCatch(message) ==
    <<SpinnerFail("Failed to generate diff"),
      Log("\n       Error: " \o message \o "\n ")>>

\* showRepositoryInfo, catch block
InfoCatch(message) ==
    <<SpinnerFail("Failed to gather repository information"),
      Log("Error: " \o message)>>

\* checkDiff: the mode chain of the shortstat command
ShortstatMode(o) ==
    IF o.staged THEN "git diff --cached"
    ELSE IF o.unstaged THEN "git diff"
    ELSE IF o.all THEN "git diff HEAD"
    ELSE IF Truthy(o.branch) THEN "git diff " \o o.branch[1]
    ELSE IF Truthy(o.commit) THEN "git diff " \o o.commit[1]
    ELSE "git diff"

BuildShortstatCommand(o) ==
    ShortstatMode(o) \o FileFilter(o) \o " --shortstat --ignore-submodules=all"

StatusCommand == "git status --porcelain"

BranchCommand == "git branch --show-current"

RemoteCommand == "git remote get-url origin"

LastCommitCommand == "git log -1 --oneline"

\* checkDiff: the "Summary:" line, parts.join(", ")
SummaryLine(c) ==
    "  " \o "Modified: " \o NumberToString(c.modified)
         \o ", Added: " \o NumberToString(c.added)
         \o ", Deleted: " \o NumberToString(c.deleted)
         \o (IF c.renamed > 0 THEN ", Renamed: " \o NumberToString(c.renamed) ELSE "")
         \o (IF c.unmerged > 0 THEN ", Unmerged: " \o NumberToString(c.unmerged) ELSE "")
         \o (IF c.untracked > 0 THEN ", Untracked: " \o NumberToString(c.untracked)
                                ELSE "")

\* checkDiff: everything the status summary prints before the shortstat query
SummaryOutput(es) ==
    <<Log("\nFile Status Summary:")>>
    \o [k \in 1..Len(SummaryPrinted(es)) |->
           Log("  " \o SummaryPrinted(es)[k].label \o ": "
                    \o SummaryPrinted(es)[k].filename)]
    \o <<Log("\nSummary:"), Log(SummaryLine(SummaryCounts(es)))>>

(***************************************************************************)
(* Inputs of the filter: diff texts of at most MaxLines lines               *)
(***************************************************************************)
MaxLines == 3

\* header lines as git writes them (a/ b/ prefixes; i/ w/ with
\* diff.mnemonicPrefix), the deletion header the code's comment names, and
\* body lines
DiffLines == { "diff --git a/a.txt b/a.txt",
               "diff --git a/b.log b/b.log",
               "diff --git a/b.log b/dev/null",
               "diff --git i/a.txt w/a.txt",
               "+x",
               "" }

DiffPaths == {"a.txt", "b.log"}

LineSeqs == UNION { [1..n -> DiffLines] : n \in 1..MaxLines }

InitFilter ==
    /\ diff \in { Join(ls) : ls \in LineSeqs }
    /\ ignored \in SUBSET DiffPaths
    /\ filtered = ""
    /\ formatted = ""
    /\ fpc = "input"
    /\ SynthIdle
    /\ StatusIdle
    /\ RunIdle

FilterCall ==
    /\ fpc = "input"
    /\ filtered' = filterIgnoredFilesFromDiff(diff, ignored)
    /\ fpc' = "done"
    /\ UNCHANGED <<diff, formatted, envVars, synthVars, statusVars, runVars>>

MaxFormatLines == 3

\* the kinds of line formatDiffOutput tells apart, and lines of no kind
FormatLines == { "diff --git a/a.txt b/a.txt",
                 "diff --git a/b.log b/b.log",
                 "index 1a2b..3c4d 100644",
                 "@@ -1 +1 @@",
                 "+x",
                 "-y",
                 " z",
                 "" }

FormatLineSeqs == UNION { [1..n -> FormatLines] : n \in 1..MaxFormatLines }

InitFormat ==
    /\ diff \in { Join(ls) : ls \in FormatLineSeqs }
    /\ ignored \in {{}, {"b.log"}}
    /\ options \in { [NoOptions EXCEPT !.color = c] : c \in BOOLEAN }
    /\ rawOptions = NoOptions
    /\ diffCommand = ""
    /\ description = ""
    /\ spc = "idle"
    /\ filtered = ""
    /\ formatted = ""
    /\ fpc = "input"
    /\ StatusIdle
    /\ RunIdle

\* formatDiffOutput(diff, options): filtered is its local filteredDiff
FormatCall ==
    /\ fpc = "input"
    /\ filtered' = filterIgnoredFilesFromDiff(diff, ignored)
    /\ formatted' = formatDiffOutput(diff, options, ignored)
    /\ fpc' = "done"
    /\ UNCHANGED <<diff, envVars, synthVars, statusVars, runVars>>

vars == <<envVars, filterVars, synthVars, statusVars, runVars>>

NextFilter == FilterCall

SpecFilter == InitFilter /\ [][NextFilter]_vars

NextFormat == FormatCall

SpecFormat == InitFormat /\ [][NextFormat]_vars

NextSynth == DiffAction

NextStatus == StatusSummary

SpecStatus == InitStatus /\ [][NextStatus]_vars

SpecSynth == InitSynth /\ [][NextSynth]_vars


(***************************************************************************)
(* One invocation of the diff command (checkDiff) or of the status / info   *)
(* command (showRepositoryInfo).  Every call of executeGitCommand is a      *)
(* step: git answers with a text, or execSync throws with the captured      *)
(* stderr and stdout.                                                       *)
(***************************************************************************)
GitFailures ==
    { [stderr |-> "fatal: bad revision", stdout |-> ""],
      [stderr |-> "", stdout |-> "partial output"],
      [stderr |-> "", stdout |-> ""] }

DiffResults ==
    { "", "diff --git a/a.txt b/a.txt\n+x\n", "diff --git a/b.log b/b.log\n-y\n" }

StatusResults == { "", " M src/a.ts\n", "?? newfile.txt\nMD c.ts\n" }

ShortstatResults == { "", " 1 file changed, 1 insertion(+)\n" }

BranchResults == { "main\n", "" }

RemoteResults == { "git@example.com:o/r.git\n" }

LastCommitResults == { "abc123 init\n" }

RunOptionSets ==
    { [NoOptions EXCEPT !.context = "3"],
      [NoOptions EXCEPT !.context = "abc", !.staged = TRUE, !.file = <<"src/a.ts">>,
                        !.color = FALSE],
      [NoOptions EXCEPT !.context = "10", !.branch = <<"main">>] }

Init ==
    /\ handler \in {"diff", "info"}
    /\ pc = "start"
    /\ dotGit \in BOOLEAN
    /\ insideRepo \in BOOLEAN
    /\ ignored \in {{}, {"b.log"}}
    /\ rawOptions \in RunOptionSets
    /\ options = NoOptions
    /\ diffCommand = ""
    /\ description = ""
    /\ spc = "idle"
    /\ executed = <<>>
    /\ failures = <<>>
    /\ output = <<>>
    /\ info = NoInfo
    /\ FilterIdle
    /\ StatusIdle

\* what a failed query leaves behind: the command was run once, execSync threw
Thrown(command, f) ==
    /\ executed' = Append(executed, command)
    /\ failures' = Append(failures,
                          [command |-> command, stderr |-> f.stderr, stdout |-> f.stdout])

\* the action of the diff command and checkDiff down to the diff query
CheckDiffStart ==
    /\ handler = "diff" /\ pc = "start"
    /\ options' = DiffActionOptions(rawOptions)
    /\ IF ~isGitRepository
       THEN /\ output' = <<SpinnerFail("Not a git repository"),
                           Log("Error: Current directory is not a git repository")>>
            /\ pc' = "done"
            /\ UNCHANGED <<diffCommand, description>>
       ELSE /\ diffCommand' = BuildDiffCommand(options')
            /\ description' = BuildDescription(options')
            /\ pc' = "diffQuery"
            /\ UNCHANGED output
    /\ UNCHANGED <<rawOptions, spc, envVars, filterVars, statusVars, handler, dotGit,
                   insideRepo, executed, failures, info>>

\* the diff query returns: the diff is printed, or the note that there is none
DiffQueryOk ==
    /\ handler = "diff" /\ pc = "diffQuery" /\ insideRepo
    /\ \E text \in DiffResults :
        /\ executed' = Append(executed, diffCommand)
        /\ diff' = text
        /\ IF Trim(text) = ""
           THEN /\ output' = output \o
                      <<SpinnerSucceed("Diff generated successfully"),
                        Log("No " \o toLowerCase(description) \o " found")>>
                /\ pc' = "done"
                /\ UNCHANGED <<filtered, formatted>>
           ELSE /\ filtered' = filterIgnoredFilesFromDiff(text, ignored)
                /\ formatted' = formatDiffOutput(text, options, ignored)
                /\ output' = output \o
                      <<SpinnerSucceed("Diff generated successfully"),
                        Log("\n" \o description \o ":\n"),
                        Log(formatted')>>
                /\ pc' = "statusQuery"
    /\ UNCHANGED <<fpc, synthVars, envVars, statusVars, handler, dotGit, insideRepo,
                   failures, info>>

DiffQueryFails ==
    /\ handler = "diff" /\ pc = "diffQuery"
    /\ \E f \in GitFailures :
        /\ Thrown(diffCommand, f)
        /\ output' = output \o CheckDiffCatch(ErrorMessage(diffCommand, f.stderr, f.stdout))
    /\ pc' = "done"
    /\ UNCHANGED <<synthVars, envVars, filterVars, statusVars, handler, dotGit,
                   insideRepo, info>>

\* getGitStatus returns: the summary is printed when there is any entry
StatusQueryOk ==
    /\ handler = "diff" /\ pc = "statusQuery" /\ insideRepo
    /\ \E text \in StatusResults :
        /\ executed' = Append(executed, StatusCommand)
        /\ statusText' = text
        /\ entries' = SummaryEntries(getGitStatus(text, ignored))
        /\ printed' = SummaryPrinted(entries')
        /\ counts' = SummaryCounts(entries')
        /\ IF Len(entries') > 0
           THEN output' = output \o SummaryOutput(entries') /\ pc' = "shortstatQuery"
           ELSE UNCHANGED output /\ pc' = "done"
    /\ UNCHANGED <<tpc, synthVars, envVars, filterVars, handler, dotGit, insideRepo,
                   failures, info>>

StatusQueryFails ==
    /\ handler = "diff" /\ pc = "statusQuery"
    /\ \E f \in GitFailures :
        /\ Thrown(StatusCommand, f)
        /\ output' = output \o CheckDiffCatch(ErrorMessage(StatusCommand, f.stderr, f.stdout))
    /\ pc' = "done"
    /\ UNCHANGED <<synthVars, envVars, filterVars, statusVars, handler, dotGit,
                   insideRepo, info>>

ShortstatQueryOk ==
    /\ handler = "diff" /\ pc = "shortstatQuery" /\ insideRepo
    /\ \E text \in ShortstatResults :
        /\ executed' = Append(executed, BuildShortstatCommand(options))
        /\ output' = output \o
              (IF Trim(text) # "" THEN <<Log("\nChanges:"), Log("  " \o Trim(text))>>
                                  ELSE <<>>)
    /\ pc' = "done"
    /\ UNCHANGED <<synthVars, envVars, filterVars, statusVars, handler, dotGit,
                   insideRepo, failures, info>>

ShortstatQueryFails ==
    /\ handler = "diff" /\ pc = "shortstatQuery"
    /\ \E f \in GitFailures :
        /\ Thrown(BuildShortstatCommand(options), f)
        /\ output' = output \o
              CheckDiffCatch(ErrorMessage(BuildShortstatCommand(options), f.stderr, f.stdout))
    /\ pc' = "done"
    /\ UNCHANGED <<synthVars, envVars, filterVars, statusVars, handler, dotGit,
                   insideRepo, info>>

\* showRepositoryInfo down to the branch query
InfoStart ==
    /\ handler = "info" /\ pc = "start"
    /\ IF ~isGitRepository
       THEN output' = <<SpinnerFail("Not a git repository")>> /\ pc' = "done"
       ELSE UNCHANGED output /\ pc' = "branchQuery"
    /\ UNCHANGED <<synthVars, envVars, filterVars, statusVars, handler, dotGit,
                   insideRepo, executed, failures, info>>

BranchQueryOk ==
    /\ handler = "info" /\ pc = "branchQuery" /\ insideRepo
    /\ \E text \in BranchResults :
        /\ executed' = Append(executed, BranchCommand)
        /\ info' = [info EXCEPT !.branch = Trim(text)]
    /\ pc' = "remoteQuery"
    /\ UNCHANGED <<synthVars, envVars, filterVars, statusVars, handler, dotGit,
                   insideRepo, failures, output>>

BranchQueryFails ==
    /\ handler = "info" /\ pc = "branchQuery"
    /\ \E f \in GitFailures :
        /\ Thrown(BranchCommand, f)
        /\ output' = output \o InfoCatch(ErrorMessage(BranchCommand, f.stderr, f.stdout))
    /\ pc' = "done"
    /\ UNCHANGED <<synthVars, envVars, filterVars, statusVars, handler, dotGit,
                   insideRepo, info>>

RemoteQueryOk ==
    /\ handler = "info" /\ pc = "remoteQuery" /\ insideRepo
    /\ \E text \in RemoteResults :
        /\ executed' = Append(executed, RemoteCommand)
        /\ info' = [info EXCEPT !.remote = Trim(text)]
    /\ pc' = "lastCommitQuery"
    /\ UNCHANGED <<synthVars, envVars, filterVars, statusVars, handler, dotGit,
                   insideRepo, failures, output>>

\* the remote query without its own try / catch: the failure reaches the
\* outer catch block
RemoteQueryFails_Propagates ==
    /\ handler = "info" /\ pc = "remoteQuery"
    /\ \E f \in GitFailures :
        /\ Thrown(RemoteCommand, f)
        /\ output' = output \o InfoCatch(ErrorMessage(RemoteCommand, f.stderr, f.stdout))
    /\ pc' = "done"
    /\ UNCHANGED <<synthVars, envVars, filterVars, statusVars, handler, dotGit,
                   insideRepo, info>>

\* the inner try / catch: the failure is replaced by the placeholder
RemoteQueryFails ==
    /\ handler = "info" /\ pc = "remoteQuery"
    /\ \E f \in GitFailures : Thrown(RemoteCommand, f)
    /\ info' = [info EXCEPT !.remote = "No remote origin set"]
    /\ pc' = "lastCommitQuery"
    /\ UNCHANGED <<synthVars, envVars, filterVars, statusVars, handler, dotGit,
                   insideRepo, output>>

LastCommitQueryOk ==
    /\ handler = "info" /\ pc = "lastCommitQuery" /\ insideRepo
    /\ \E text \in LastCommitResults :
        /\ executed' = Append(executed, LastCommitCommand)
        /\ info' = [info EXCEPT !.lastCommit = Trim(text)]
    /\ pc' = "infoStatusQuery"
    /\ UNCHANGED <<synthVars, envVars, filterVars, statusVars, handler, dotGit,
                   insideRepo, failures, output>>

LastCommitQueryFails ==
    /\ handler = "info" /\ pc = "lastCommitQuery"
    /\ \E f \in GitFailures :
        /\ Thrown(LastCommitCommand, f)
        /\ output' = output \o InfoCatch(ErrorMessage(LastCommitCommand, f.stderr, f.stdout))
    /\ pc' = "done"
    /\ UNCHANGED <<synthVars, envVars, filterVars, statusVars, handler, dotGit,
                   insideRepo, info>>

InfoStatusQueryOk ==
    /\ handler = "info" /\ pc = "infoStatusQuery" /\ insideRepo
    /\ \E text \in StatusResults :
        /\ executed' = Append(executed, StatusCommand)
        /\ statusText' = text
        /\ output' = output \o
              <<SpinnerSucceed("Repository information gathered"),
                Log("\nRepository Information:"),
                Log("  Branch: " \o info.branch),
                Log("  Remote: " \o info.remote),
                Log("  Last commit: " \o info.lastCommit),
                Log("  Modified files: "
                        \o NumberToString(Len(getGitStatus(text, ignored))))>>
    /\ pc' = "done"
    /\ UNCHANGED <<entries, printed, counts, tpc, synthVars, envVars, filterVars,
                   handler, dotGit, insideRepo, failures, info>>

InfoStatusQueryFails ==
    /\ handler = "info" /\ pc = "infoStatusQuery"
    /\ \E f \in GitFailures :
        /\ Thrown(StatusCommand, f)
        /\ output' = output \o InfoCatch(ErrorMessage(StatusCommand, f.stderr, f.stdout))
    /\ pc' = "done"
    /\ UNCHANGED <<synthVars, envVars, filterVars, statusVars, handler, dotGit,
                   insideRepo, info>>

Next ==
    \/ CheckDiffStart
    \/ DiffQueryOk
    \/ DiffQueryFails
    \/ StatusQueryOk
    \/ StatusQueryFails
    \/ ShortstatQueryOk
    \/ ShortstatQueryFails
    \/ InfoStart
    \/ BranchQueryOk
    \/ BranchQueryFails
    \/ RemoteQueryOk
    \/ RemoteQueryFails
    \/ LastCommitQueryOk
    \/ LastCommitQueryFails
    \/ InfoStatusQueryOk
    \/ InfoStatusQueryFails

Spec == Init /\ [][Next]_vars

(***************************************************************************)
(* The sections of a diff text, as the specification defines them           *)
(***************************************************************************)
IsMarker(line) == StartsWith(line, Marker)

\* the two path tokens of a header line, "<x>/<old>" and "<y>/<new>"
HeaderTokens(line) ==
    LET rest == SubstringFrom(line, Len(Marker) + 1)
        sp   == CHOOSE k \in 1..Len(rest) :
                    /\ CharAt(rest, k) = " "
                    /\ \A j \in 1..(k - 1) : CharAt(rest, j) # " "
    IN  <<Slice(rest, 1, sp - 1), SubstringFrom(rest, sp)>>

SourcePath(line) == SubstringFrom(HeaderTokens(line)[1], 2)

DestPath(line) == SubstringFrom(HeaderTokens(line)[2], 2)

\* the destination of a deletion: the header reads "b/dev/null"
NoFile == "dev/null"

EffectivePath(line) ==
    IF DestPath(line) = NoFile THEN SourcePath(line) ELSE DestPath(line)

NumSections(lines) == Cardinality({ k \in 1..Len(lines) : IsMarker(lines[k]) })

RECURSIVE RetainedFrom(_, _, _, _)
\* the lines before the first header and the lines of every section whose
\* effective path is not ignored, in order
RetainedFrom(lines, i, keep, ign) ==
    IF i > Len(lines) THEN <<>>
    ELSE LET k == IF IsMarker(lines[i]) THEN EffectivePath(lines[i]) \notin ign
                                        ELSE keep
         IN  (IF k THEN <<lines[i]>> ELSE <<>>) \o RetainedFrom(lines, i + 1, k, ign)

Retained(lines, ign) == RetainedFrom(lines, 1, TRUE, ign)

\* the lines without the section that starts at header line k
WithoutSection(lines, k) ==
    SubSeq(lines, 1, k - 1) \o SubSeq(lines, NextMarker(lines, k + 1), Len(lines))

(***************************************************************************)
(* C1. The filter never emits a section whose effective path is ignored     *)
(* (the destination path, or the source path when the destination is the    *)
(* no-file sentinel), and it emits at most as many sections as it was       *)
(* given.                                                                   *)
(***************************************************************************)
C1_NoIgnoredSectionEmitted ==
    fpc = "done" =>
        LET out == Split(filtered)
        IN  /\ \A k \in 1..Len(out) :
                   IsMarker(out[k]) => EffectivePath(out[k]) \notin ignored
            /\ NumSections(out) <= NumSections(Split(diff))

(***************************************************************************)
(* C2. Every section whose effective path is not ignored is emitted with    *)
(* all its lines, unchanged and in order, whatever precedes or follows it;  *)
(* lines before the first header pass through; with no ignored path the     *)
(* output is the input.                                                     *)
(***************************************************************************)
C2_RetainedSectionsEmitted ==
    fpc = "done" =>
        /\ Join(Retained(Split(filtered), ignored)) = Join(Retained(Split(diff), ignored))
        /\ (ignored = {} => filtered = diff)

(***************************************************************************)
(* C5. Stability: removing a section whose effective path is ignored from   *)
(* the input, wherever it stands, does not change the filtered output.      *)
(***************************************************************************)
C5_StableUnderIgnoredSections ==
    fpc = "done" =>
        LET lines == Split(diff)
        IN  \A k \in 1..Len(lines) :
                (IsMarker(lines[k]) /\ EffectivePath(lines[k]) \in ignored)
                => filterIgnoredFilesFromDiff(Join(WithoutSection(lines, k)), ignored)
                       = filtered

(***************************************************************************)
(* The mode of a request, as the specification defines it                   *)
(***************************************************************************)
ModeOrder == <<"staged", "unstaged", "all", "branch", "commit">>

\* an option is set when it is given with a value: a flag that is true, a
\* string option that is present and not empty
IsSet(o, name) ==
    CASE name = "staged"   -> o.staged
      [] name = "unstaged" -> o.unstaged
      [] name = "all"      -> o.all
      [] name = "branch"   -> Truthy(o.branch)
      [] name = "commit"   -> Truthy(o.commit)

SelectedMode(o) ==
    IF \E k \in 1..Len(ModeOrder) : IsSet(o, ModeOrder[k])
    THEN ModeOrder[CHOOSE k \in 1..Len(ModeOrder) :
                       /\ IsSet(o, ModeOrder[k])
                       /\ \A j \in 1..(k - 1) : ~IsSet(o, ModeOrder[j])]
    ELSE "default"

ValueOf(opt) == IF opt = Undefined THEN "" ELSE opt[1]

ModeQuery(mode, o) ==
    CASE mode = "staged"   -> "git diff --cached"
      [] mode = "unstaged" -> "git diff"
      [] mode = "all"      -> "git diff HEAD"
      [] mode = "branch"   -> "git diff " \o ValueOf(o.branch)
      [] mode = "commit"   -> "git diff " \o ValueOf(o.commit)
      [] mode = "default"  -> "git diff"

ModeDescription(mode, o) ==
    CASE mode = "staged"   -> "Staged changes"
      [] mode = "unstaged" -> "Unstaged changes"
      [] mode = "all"      -> "All changes (staged + unstaged)"
      [] mode = "branch"   -> "Changes compared to " \o ValueOf(o.branch)
      [] mode = "commit"   -> "Changes compared to " \o ValueOf(o.commit)
      [] mode = "default"  -> "Working directory changes"

AllModes == {"staged", "unstaged", "all", "branch", "commit", "default"}

\* the first position at which p occurs in s, or 0
IndexOf(s, p) ==
    LET hits == { k \in 1..Len(s) : Slice(s, k, k + Len(p) - 1) = p }
    IN  IF hits = {} THEN 0 ELSE CHOOSE k \in hits : \A j \in hits : k <= j

(***************************************************************************)
(* C3. Exactly one mode is selected, by the precedence staged > unstaged >  *)
(* all > branch > commit > default: the first option set in that order      *)
(* decides the query command and the description.                           *)
(***************************************************************************)
C3_ModePrecedence ==
    spc = "done" =>
        LET shown == { m \in AllModes :
                         /\ description = ModeDescription(m, rawOptions)
                         /\ StartsWith(diffCommand, ModeQuery(m, rawOptions) \o " -U") }
        IN  shown = {SelectedMode(rawOptions)}

C3_Witness ==
    /\ spc = "done"
    /\ rawOptions.staged /\ rawOptions.all
    /\ description = "Staged changes"
    /\ StartsWith(diffCommand, "git diff --cached -U")

(***************************************************************************)
(* C4. After the mode part the command carries, in this order: the context  *)
(* count (always, the supplied value or 3), the word-level flag (iff        *)
(* wordDiff), the submodule flag (always), the path restriction (iff a file *)
(* filter was supplied).                                                    *)
(***************************************************************************)
C4_FlagOrder ==
    spc = "done" =>
        LET supplied == parseInt(rawOptions.context)
            count    == IF supplied.nan THEN 3 ELSE supplied.value
        IN  diffCommand =
                ModeQuery(SelectedMode(rawOptions), rawOptions)
                \o " -U" \o NumberToString(count)
                \o (IF rawOptions.wordDiff THEN " --word-diff=color" ELSE "")
                \o " --ignore-submodules=all"
                \o (IF Truthy(rawOptions.file) THEN " -- " \o rawOptions.file[1]
                                               ELSE "")

C4_Witness ==
    /\ spc = "done"
    /\ rawOptions.wordDiff
    /\ rawOptions.file = <<"src/a.ts">>
    /\ rawOptions.context = "10"
    /\ rawOptions.all /\ ~rawOptions.staged /\ ~rawOptions.unstaged
    /\ diffCommand =
         "git diff HEAD -U10 --word-diff=color --ignore-submodules=all -- src/a.ts"

(***************************************************************************)
(* C8. Whatever string is given as the context option, the context count    *)
(* handed to checkDiff and written into the command is a non-negative       *)
(* integer, and "abc" resolves to 3.                                        *)
(***************************************************************************)
C8_ContextNonNegative ==
    spc = "done" =>
        /\ options.context # Undefined
        /\ options.context[1] \in Nat
        /\ (rawOptions.context = "abc" => options.context[1] = 3)
        /\ LET at == IndexOf(diffCommand, " -U")
           IN  at > 0 /\ DigitValue(CharAt(diffCommand, at + 3), 10) >= 0

(***************************************************************************)
(* The status entries, as the specification defines them                    *)
(***************************************************************************)
\* the non-empty lines of the status text as git wrote them, without those of
\* ignored paths
ReportedLines ==
    SelectSeq(SelectSeq(Split(statusText), LAMBDA line : Len(line) > 0),
              LAMBDA line : SubstringFrom(line, 3) \notin ignored)

(***************************************************************************)
(* C6. For every non-empty line of the status text, the first included, the *)
(* entry used for the summary has the line's first two characters as state  *)
(* code and the text from the fourth character on as path; entries keep the *)
(* input order; " M src/a.ts" is reported as modified with path src/a.ts    *)
(* and "?? newfile.txt" as untracked with path newfile.txt.                 *)
(***************************************************************************)
C6_EntryCodeAndPath ==
    tpc = "done" =>
        /\ Len(entries) = Len(ReportedLines)
        /\ \A k \in 1..Len(entries) :
               /\ entries[k].status = Slice(ReportedLines[k], 1, 2)
               /\ entries[k].filename = Slice(ReportedLines[k], 4, Len(ReportedLines[k]))
        /\ (statusText = " M src/a.ts\n"
               => printed = <<[label |-> "Modified", filename |-> "src/a.ts"]>>)
        /\ ((statusText = "?? newfile.txt\n" /\ ignored = {})
               => printed = <<[label |-> "Untracked", filename |-> "newfile.txt"]>>)

(***************************************************************************)
(* C7. The tally is inclusive: an entry counts under every category whose   *)
(* state character occurs in its two-character code, so "MD" counts as      *)
(* modified and as deleted; "??" counts as untracked only.                  *)
(***************************************************************************)
NumWith(c) == Cardinality({ k \in 1..Len(entries) : Includes(entries[k].status, c) })

C7_InclusiveTally ==
    tpc = "done" =>
        /\ counts.modified = NumWith("M")
        /\ counts.added = NumWith("A")
        /\ counts.deleted = NumWith("D")
        /\ counts.renamed = NumWith("R")
        /\ counts.unmerged = NumWith("U")
        /\ counts.untracked =
               Cardinality({ k \in 1..Len(entries) : entries[k].status = "??" })

(***************************************************************************)
(* C7, amended. The tally is exclusive: an entry counts under the first     *)
(* category, in the order M, A, D, R, U, whose state character occurs in    *)
(* its code, and under no other; "??" counts as untracked only; so the six  *)
(* counters add up to at most the number of entries.                        *)
(***************************************************************************)
FirstKind(status) ==
    LET order == <<"M", "A", "D", "R", "U">>
        hits  == { k \in 1..Len(order) : Includes(status, order[k]) }
    IN  IF hits # {} THEN order[CHOOSE k \in hits : \A j \in hits : k <= j]
        ELSE IF status = "??" THEN "??"
        ELSE ""

NumFirst(c) == Cardinality({ k \in 1..Len(entries) : FirstKind(entries[k].status) = c })

C7_FirstMatchTally ==
    tpc = "done" =>
        /\ counts.modified = NumFirst("M")
        /\ counts.added = NumFirst("A")
        /\ counts.deleted = NumFirst("D")
        /\ counts.renamed = NumFirst("R")
        /\ counts.unmerged = NumFirst("U")
        /\ counts.untracked = NumFirst("??")
        /\ counts.modified + counts.added + counts.deleted + counts.renamed
               + counts.unmerged + counts.untracked <= Len(entries)
        /\ Len(printed) <= Len(entries)

C7_Witness ==
    /\ tpc = "done"
    /\ \E k \in 1..Len(entries) : entries[k].status = "MD"
    /\ \E k \in 1..Len(entries) : entries[k].status = "??"
    /\ counts.modified = 1 /\ counts.deleted = 0 /\ counts.untracked = 1

(***************************************************************************)
(* C9. checkDiff raises the environment error exactly when the current      *)
(* directory is not inside a repository, and then nothing else happens: no  *)
(* git command is executed and nothing but the error is printed.            *)
(***************************************************************************)
EnvironmentError == Log("Error: Current directory is not a git repository")

EnvironmentErrorRaised == \E k \in 1..Len(output) : output[k] = EnvironmentError

C9_EnvironmentErrorIffOutsideRepo ==
    (handler = "diff" /\ pc # "start") =>
        /\ EnvironmentErrorRaised <=> ~insideRepo
        /\ EnvironmentErrorRaised =>
               /\ executed = <<>>
               /\ output = <<SpinnerFail("Not a git repository"), EnvironmentError>>
               /\ pc = "done"

(***************************************************************************)
(* C10. When a diff, status, branch, last-commit or shortstat query fails,  *)
(* exactly one error is reported, its message begins "Git command failed:"  *)
(* and carries the captured stderr text verbatim; the failed query was run  *)
(* once, no query is run after it, and the invocation is over.              *)
(***************************************************************************)
ErrorReports ==
    SelectSeq(output, LAMBDA r : r.via = "console.log" /\ IndexOf(r.text, "Error: ") > 0)

\* the text of an error report after "Error: "
ReportedMessage(r) == SubstringFrom(r.text, IndexOf(r.text, "Error: ") + 6)

TimesExecuted(command) ==
    Cardinality({ k \in 1..Len(executed) : executed[k] = command })

C10_QueryFailureReportedOnce ==
    \A k \in 1..Len(failures) :
        failures[k].command # RemoteCommand =>
            /\ Len(ErrorReports) = 1
            /\ StartsWith(ReportedMessage(ErrorReports[1]),
                          "Git command failed: " \o failures[k].command)
            /\ (failures[k].stderr # ""
                   => StartsWith(ReportedMessage(ErrorReports[1]),
                                 "Git command failed: " \o failures[k].command
                                     \o "\n" \o failures[k].stderr))
            /\ TimesExecuted(failures[k].command) = 1
            /\ executed[Len(executed)] = failures[k].command
            /\ k = Len(failures)
            /\ output[Len(output)] = ErrorReports[1]
            /\ pc = "done"
            /\ ~ENABLED Next

C10_Witness ==
    /\ handler = "diff" /\ pc = "done"
    /\ Len(executed) = 2
    /\ Len(failures) = 1
    /\ failures[1].command = StatusCommand
    /\ failures[1].stderr = "fatal: bad revision"
    /\ Len(ErrorReports) = 1

(***************************************************************************)
(* C11. In showRepositoryInfo a failed remote query is recovered locally:   *)
(* the remote becomes "No remote origin set", the last-commit and status    *)
(* queries are still executed, and when they and the branch query succeed   *)
(* the information is printed as a success, with no error reported.         *)
(***************************************************************************)
RemoteFailed == \E k \in 1..Len(failures) : failures[k].command = RemoteCommand

Printed(r) == \E k \in 1..Len(output) : output[k] = r

C11_RemoteFailureRecovered ==
    (handler = "info" /\ RemoteFailed) =>
        /\ info.remote = "No remote origin set"
        /\ pc # "remoteQuery"
        /\ (pc = "done" /\ Len(failures) = 1) =>
               /\ executed = <<BranchCommand, RemoteCommand, LastCommitCommand,
                               StatusCommand>>
               /\ Printed(SpinnerSucceed("Repository information gathered"))
               /\ Printed(Log("  Remote: No remote origin set"))
               /\ Printed(Log("  Branch: " \o info.branch))
               /\ Printed(Log("  Last commit: " \o info.lastCommit))
               /\ ErrorReports = <<>>
               /\ \A k \in 1..Len(output) : output[k].via # "spinner.fail"

C11_Witness ==
    /\ handler = "info" /\ pc = "done"
    /\ Len(failures) = 1 /\ failures[1].command = RemoteCommand
    /\ Len(executed) = 4
    /\ Printed(Log("  Remote: No remote origin set"))
    /\ Printed(Log("  Last commit: abc123 init"))

(***************************************************************************)
(* C12. formatDiffOutput keeps the lines of the filtered diff. With color   *)
(* false it returns the filtered diff unchanged, and the empty text stays   *)
(* empty whatever color is. With color true the output has the same lines   *)
(* with the same content in the same order, and each line carries at most   *)
(* one presentation tag, the one its own prefix decides: "+" addition, "-"  *)
(* deletion, "@@" hunk header, "diff --git" file header, "index" metadata,  *)
(* otherwise none; the lines before and after it play no part.              *)
(***************************************************************************)
\* the presentation tags, as the colour codes chalk writes for them
PresentationTags ==
    { [prefix |-> "+", tag |-> "32"],
      [prefix |-> "-", tag |-> "31"],
      [prefix |-> "@@", tag |-> "34"],
      [prefix |-> "diff --git", tag |-> "33"],
      [prefix |-> "index", tag |-> "90"] }

\* the tags the prefix of a line asks for
TagsFor(line) == { p.tag : p \in { q \in PresentationTags : StartsWith(line, q.prefix) } }

TagClose == "^[[39m"

\* a line of the output wrapped in one tag: ^[[<tag>m ... ^[[39m
IsTagged(l) ==
    /\ Len(l) >= 6 + Len(TagClose)
    /\ Slice(l, 1, 3) = "^[["
    /\ CharAt(l, 6) = "m"
    /\ Slice(l, Len(l) - Len(TagClose) + 1, Len(l)) = TagClose

TagsOf(l) == IF IsTagged(l) THEN { Slice(l, 4, 5) } ELSE {}

StripTag(l) == IF IsTagged(l) THEN Slice(l, 7, Len(l) - Len(TagClose)) ELSE l

C12_FormatKeepsLines ==
    fpc = "done" =>
        LET src == Split(filtered)
            out == Split(formatted)
        IN  /\ (~options.color => formatted = filtered)
            /\ (filtered = "" => formatted = "")
            /\ Len(out) = Len(src)
            /\ \A k \in 1..Len(src) :
                   /\ Cardinality(TagsFor(src[k])) <= 1
                   /\ options.color =>
                          /\ StripTag(out[k]) = src[k]
                          /\ TagsOf(out[k]) = TagsFor(src[k])

\* a coloured output of three lines in which a header, a tagged body line and
\* an untagged line stand side by side
C12_Witness ==
    /\ fpc = "done" /\ options.color
    /\ LET src == Split(filtered)
           out == Split(formatted)
       IN  /\ Len(src) = 3
           /\ \E i, j, k \in 1..3 :
                  /\ TagsOf(out[i]) = {"33"}
                  /\ TagsOf(out[j]) = {"32"}
                  /\ TagsOf(out[k]) = {} /\ src[k] = " z"

(***************************************************************************)
(* C13. The shortstat query of checkDiff covers the selection of the diff   *)
(* query of the same invocation: it starts with the query of the same mode, *)
(* it carries a path restriction exactly when a file filter is given, that  *)
(* restriction being the file and nothing else, and --shortstat and         *)
(* --ignore-submodules=all stand before the " -- " separator.               *)
(***************************************************************************)
PathSeparator == " -- "

\* what follows the separator of a command: its path restriction
PathRestriction(cmd) ==
    LET sep == IndexOf(cmd, PathSeparator)
    IN  IF sep = 0 THEN Undefined
        ELSE <<Slice(cmd, sep + Len(PathSeparator), Len(cmd))>>

\* the flag is among the options of the command, not in its path restriction
IsOptionFlag(cmd, flag) ==
    LET sep == IndexOf(cmd, PathSeparator)
        at  == IndexOf(cmd, " " \o flag)
    IN  at > 0 /\ (sep > 0 => at < sep)

IsShortstatQuery(cmd) == IndexOf(cmd, " --shortstat") > 0

C13_ShortstatSameSelection ==
    \A k \in 1..Len(executed) :
        IsShortstatQuery(executed[k]) =>
            LET cmd  == executed[k]
                mode == ModeQuery(SelectedMode(options), options)
            IN  /\ StartsWith(cmd, mode)
                /\ StartsWith(diffCommand, mode)
                /\ PathRestriction(cmd) = PathRestriction(diffCommand)
                /\ PathRestriction(cmd) =
                       (IF Truthy(options.file) THEN options.file ELSE Undefined)
                /\ IsOptionFlag(cmd, "--shortstat")
                /\ IsOptionFlag(cmd, "--ignore-submodules=all")

====
